---- MODULE Spec2Model ----
(***************************************************************************)
(* A model of openbr/core/plot.cpp: the RPlot pivot classifier and script   *)
(* writer, its qplot/finalize members, getScale, and the four report        *)
(* drivers Plot, PlotDetection, PlotLandmarking and PlotMetadata.           *)
(*                                                                          *)
(* A QString that the code parses or compares (a path, a pivot label, a     *)
(* header, an option entry) is a sequence of atoms.  An atom is a separator *)
(* character ("_", "/", ".", "=") or a word; the words used below start     *)
(* with different characters, so comparing sequences atom by atom with      *)
(* Code (the code point of an atom's first character) orders them as        *)
(* QString::operator< orders the strings they stand for.                    *)
(***************************************************************************)
EXTENDS Integers, Sequences, FiniteSets, TLC

VARIABLES
    pc,          \* position of the running report function
    variant,     \* which report function runs: Plot, PlotDetection, ...
    files,       \* the caller's file list (argument `files`)
    destination, \* the destination File: its name and its metadata
    show,        \* argument `show`, from the call of finalize on
    columns,     \* PlotMetadata's argument `columns`
    p,           \* the RPlot object (fields of struct RPlot but `file`)
    doc,         \* the statements written to p.file, in order
    fileOpen,    \* whether p.file is open for writing
    optMap,      \* QMap<QString,File> optMap of Plot / PlotDetection
    chart,       \* number of qplot calls made so far
    plotType,    \* PlotDetection's plotType
    rocRows,     \* the lines of each input file read by fileHasSinglePoint
    runtimeCalls,\* calls of QtUtils::runRScript, in order
    showCalls,   \* calls of QtUtils::showFile, in order
    result,      \* the report function's return value
    fatal,       \* the qFatal diagnostic that aborted the process, or ""
    ub,          \* out-of-range element accesses made so far
    scaleArgs,   \* arguments of a direct getScale call
    scaleRet     \* its return value

vars == <<pc, variant, files, destination, show, columns, p, doc, fileOpen, optMap, chart,
          plotType, rocRows, runtimeCalls, showCalls, result, fatal, ub,
          scaleArgs, scaleRet>>

(***************************************************************************)
(* Bounds of the model.                                                     *)
(***************************************************************************)
MaxFiles == 3
MaxVals == 15

(***************************************************************************)
(* Strings.                                                                 *)
(***************************************************************************)
Code ==
    "." :> 46 @@ "/" :> 47 @@ "0" :> 48 @@ "1" :> 49 @@ "=" :> 61 @@
    "Algorithm" :> 65 @@ "File" :> 70 @@ "Gallery" :> 71 @@ "Split" :> 83 @@ "_" :> 95 @@
    "a" :> 97 @@ "b" :> 98 @@ "csv" :> 99

Str(word) == <<word>>

Empty == <<>>

RECURSIVE LexLess(_, _)
LexLess(a, b) ==
    IF b = <<>> THEN FALSE
    ELSE IF a = <<>> THEN TRUE
    ELSE IF Code[Head(a)] # Code[Head(b)] THEN Code[Head(a)] < Code[Head(b)]
    ELSE LexLess(Tail(a), Tail(b))

IndexOf(str, c) ==
    IF \E i \in 1..Len(str) : str[i] = c
    THEN CHOOSE i \in 1..Len(str) : str[i] = c /\ \A j \in 1..(i-1) : str[j] # c
    ELSE 0

LastIndexOf(str, c) ==
    IF \E i \in 1..Len(str) : str[i] = c
    THEN CHOOSE i \in 1..Len(str) : str[i] = c /\ \A j \in (i+1)..Len(str) : str[j] # c
    ELSE 0

RECURSIVE Split(_, _)
Split(str, sep) ==
    LET i == IndexOf(str, sep)
    IN  IF i = 0 THEN <<str>>
        ELSE <<SubSeq(str, 1, i-1)>> \o Split(SubSeq(str, i+1, Len(str)), sep)

FileName(file) == SubSeq(file, LastIndexOf(file, "/") + 1, Len(file))

Path(file) ==
    LET j == LastIndexOf(file, "/")
    IN  IF j = 0 THEN Str(".") ELSE SubSeq(file, 1, j-1)

DirName(file) ==
    LET j == LastIndexOf(file, "/")
    IN  IF j = 0 THEN Str(".") ELSE FileName(SubSeq(file, 1, j-1))

CompleteBaseName(file) ==
    LET name == FileName(file)
        k    == LastIndexOf(name, ".")
    IN  IF k = 0 THEN name ELSE SubSeq(name, 1, k-1)

Suffix(file) ==
    LET name == FileName(file)
        k    == LastIndexOf(name, ".")
    IN  IF k = 0 THEN Empty ELSE SubSeq(name, k+1, Len(name))

getPivots(file, headers) ==
    LET str == IF headers THEN DirName(file) ELSE CompleteBaseName(file)
    IN  Split(str, "_")

(***************************************************************************)
(* getScale: the scale term of a colour/fill encoding.                      *)
(***************************************************************************)
\* getScale with its first threshold off by one.
getScaleFrom12(mode, title, vals) ==
    IF      vals > 11 THEN [mode |-> mode, title |-> title, scale |-> "discrete", palette |-> ""]
    ELSE IF vals > 9  THEN [mode |-> mode, title |-> title, scale |-> "brewer", palette |-> "Paired"]
    ELSE                   [mode |-> mode, title |-> title, scale |-> "brewer", palette |-> "Set1"]

\* getScale without its Set3 branch.
getScaleNoSet3(mode, title, vals) ==
    IF      vals > 12 THEN [mode |-> mode, title |-> title, scale |-> "discrete", palette |-> ""]
    ELSE IF vals > 9  THEN [mode |-> mode, title |-> title, scale |-> "brewer", palette |-> "Paired"]
    ELSE                   [mode |-> mode, title |-> title, scale |-> "brewer", palette |-> "Set1"]

getScale(mode, title, vals) ==
    IF      vals > 12 THEN [mode |-> mode, title |-> title, scale |-> "discrete", palette |-> ""]
    ELSE IF vals > 11 THEN [mode |-> mode, title |-> title, scale |-> "brewer", palette |-> "Set3"]
    ELSE IF vals > 9  THEN [mode |-> mode, title |-> title, scale |-> "brewer", palette |-> "Paired"]
    ELSE                   [mode |-> mode, title |-> title, scale |-> "brewer", palette |-> "Set1"]

NoScale == [mode |-> "", title |-> Empty, scale |-> "", palette |-> ""]

(***************************************************************************)
(* sortFiles and qSort(files.begin(), files.end(), sortFiles).              *)
(***************************************************************************)
sortFiles(fileA, fileB) == LexLess(fileA, fileB)

RECURSIVE InsertSorted(_, _)
InsertSorted(x, s) ==
    IF s = <<>> THEN <<x>>
    ELSE IF sortFiles(x, Head(s)) THEN <<x>> \o s
    ELSE <<Head(s)>> \o InsertSorted(x, Tail(s))

RECURSIVE SortedList(_)
SortedList(s) == IF s = <<>> THEN <<>> ELSE InsertSorted(Head(s), SortedList(Tail(s)))

\* The list left as the caller gave it.
qSortSkipped(fs) == fs

qSort(fs) == SortedList(fs)

(***************************************************************************)
(* br::File: a name and a key -> value metadata map.  Keys and string       *)
(* values are strings (sequences of atoms); "confidence" and "ncol" hold    *)
(* numbers and an option list holds a sequence of strings.                  *)
(***************************************************************************)
File(name, meta) == [name |-> name, meta |-> meta]

NoMeta == [k \in {} |-> Empty]

Contains(file, key) == Str(key) \in DOMAIN file.meta

Get(file, key, defaultValue) ==
    IF Contains(file, key) THEN file.meta[Str(key)] ELSE defaultValue

GetBool(file, key, defaultValue) ==
    IF ~Contains(file, key) THEN defaultValue
    ELSE file.meta[Str(key)] # Str("false")

Set(file, key, value) ==
    [file EXCEPT !.meta = [k \in DOMAIN file.meta \cup {key} |->
                              IF k = key THEN value ELSE file.meta[k]]]

(***************************************************************************)
(* Statements of the generated R script.                                    *)
(***************************************************************************)
Source == [kind |-> "source"]
DataNull == [kind |-> "data <- NULL"]
ReadCsv(fileName) == [kind |-> "read.csv", file |-> fileName]
SetColumn(header, label) == [kind |-> "tmp$", column |-> header, value |-> label]
Rbind == [kind |-> "rbind"]
Device(suffix, basename) ==
    [kind |-> "device", suffix |-> suffix, basename |-> basename,
     sized |-> suffix # Str("pdf")]
DevOff == [kind |-> "dev.off"]
Unlink(basename, suffix) == [kind |-> "unlink", basename |-> basename, suffix |-> suffix]

(***************************************************************************)
(* struct RPlot::Pivot and the RPlot constructor.                           *)
(***************************************************************************)
Pivot(index, size, header) ==
    [index |-> index, size |-> size, header |-> header, smooth |-> FALSE]

NoPivot == Pivot(-1, 0, Empty)

\* The reads of one file in the loop of lines 94-109: its pivots, the header
\* list as it stands after the file, and the statements written for it.
ReadFile(fileName, pivotHeaders) ==
    LET tokens   == getPivots(fileName, FALSE)
        mismatch == Len(tokens) # Len(pivotHeaders)
        pivots   == IF mismatch THEN <<CompleteBaseName(fileName)>> ELSE tokens
        headers  == IF mismatch THEN <<Str("File")>> ELSE pivotHeaders
    IN  [pivots  |-> pivots,
         headers |-> headers,
         stmts   |-> <<ReadCsv(fileName)>>
                     \o [i \in 1..Len(pivots) |-> SetColumn(headers[i], pivots[i])]
                     \o <<Rbind>>]

RECURSIVE ReadFiles(_, _, _, _)
ReadFiles(fs, pivotHeaders, pivotItems, out) ==
    IF fs = <<>>
    THEN [pivotHeaders |-> pivotHeaders, pivotItems |-> pivotItems, doc |-> out]
    ELSE LET r == ReadFile(Head(fs), pivotHeaders)
             items == [i \in 1..Len(pivotItems) |->
                          IF i <= Len(r.pivots) THEN pivotItems[i] \cup {r.pivots[i]}
                          ELSE pivotItems[i]]
         IN  ReadFiles(Tail(fs), r.headers, items, out \o r.stmts)

\* The loop of lines 111-119.  i counts from 1; Pivot.index keeps the code's
\* index i-1.  pivotHeaders[i] with i beyond the list is an out-of-range
\* read: it yields `stray` and is recorded in `reads`.
\* The loop with >= for >: among equal label sets the last one wins.
RECURSIVE SelectPivotsLast(_, _, _, _, _, _, _)
SelectPivotsLast(i, pivotItems, pivotHeaders, major, minor, stray, reads) ==
    IF i > Len(pivotItems) THEN [major |-> major, minor |-> minor, reads |-> reads]
    ELSE LET size   == Cardinality(pivotItems[i])
             inside == i <= Len(pivotHeaders)
             header == IF inside THEN pivotHeaders[i] ELSE stray
             seen   == IF inside THEN reads ELSE reads \cup {i - 1}
         IN  IF size >= major.size
             THEN SelectPivotsLast(i+1, pivotItems, pivotHeaders,
                                   Pivot(i-1, size, header), major, stray, seen)
             ELSE IF size >= minor.size
             THEN SelectPivotsLast(i+1, pivotItems, pivotHeaders,
                                   major, Pivot(i-1, size, header), stray, seen)
             ELSE SelectPivotsLast(i+1, pivotItems, pivotHeaders, major, minor, stray, reads)

RECURSIVE SelectPivots(_, _, _, _, _, _, _)
SelectPivots(i, pivotItems, pivotHeaders, major, minor, stray, reads) ==
    IF i > Len(pivotItems) THEN [major |-> major, minor |-> minor, reads |-> reads]
    ELSE LET size   == Cardinality(pivotItems[i])
             inside == i <= Len(pivotHeaders)
             header == IF inside THEN pivotHeaders[i] ELSE stray
             seen   == IF inside THEN reads ELSE reads \cup {i - 1}
         IN  IF size > major.size
             THEN SelectPivots(i+1, pivotItems, pivotHeaders,
                               Pivot(i-1, size, header), major, stray, seen)
             ELSE IF size > minor.size
             THEN SelectPivots(i+1, pivotItems, pivotHeaders,
                               major, Pivot(i-1, size, header), stray, seen)
             ELSE SelectPivots(i+1, pivotItems, pivotHeaders, major, minor, stray, reads)

\* Smoothing without the test on the pivot's size.
SmoothedAnySize(pivot, smooth) ==
    LET flag == smooth # Empty /\ pivot.header = smooth
    IN  [pivot EXCEPT !.smooth = flag, !.size = IF flag THEN 1 ELSE @]

\* Lines 122-125 for one pivot.
Smoothed(pivot, smooth) ==
    LET flag == smooth # Empty /\ pivot.header = smooth /\ pivot.size > 1
    IN  [pivot EXCEPT !.smooth = flag, !.size = IF flag THEN 1 ELSE @]

\* The pivots left in place.
OrderedNoSwap(major, minor) == [major |-> major, minor |-> minor]

\* Lines 126-127.
Ordered(major, minor) ==
    IF major.size < minor.size
    THEN [major |-> minor, minor |-> major]
    ELSE [major |-> major, minor |-> minor]

DefaultNcol(major, minor) ==
    IF major.size > 1 THEN major.size
    ELSE IF minor.header = Empty THEN major.size ELSE minor.size

\* confidence is kept as the fraction num/den that line 129 computes.
Fraction(value, den) == [num |-> value, den |-> den]

\* Lines 121-131: the fields of the object, from the files read (rd), the
\* pivots selected and then smoothed and ordered (ord).
Classified(dest, rd, ord) ==
    [basename     |-> Path(dest.name) \o Str("/") \o CompleteBaseName(dest.name),
     suffix       |-> IF Suffix(dest.name) = Empty THEN Str("pdf") ELSE Suffix(dest.name),
     pivotHeaders |-> rd.pivotHeaders,
     pivotItems   |-> rd.pivotItems,
     confidence   |-> Fraction(Get(dest, "confidence", 95), 100),
     ncol         |-> Get(dest, "ncol", DefaultNcol(ord.major, ord.minor)),
     flip         |-> ord.minor.header = Str("Algorithm"),
     major        |-> ord.major,
     minor        |-> ord.minor]

SmoothedPivots(sel, smooth) ==
    Ordered(Smoothed(sel.major, smooth), Smoothed(sel.minor, smooth))

\* Lines 111-141, from the files read.
Constructed(dest, rd, sel, object) ==
    [p     |-> object,
     loads |-> rd.doc,
     doc   |-> Append(rd.doc, Device(object.suffix, object.basename)),
     reads |-> sel.reads]

Selected(dest, rd, sel) ==
    Constructed(dest, rd, sel,
                Classified(dest, rd, SmoothedPivots(sel, Get(dest, "smooth", Empty))))

\* Lines 87-109, from the sorted list and the headers of its first file.
ReadSorted(sorted, headers) ==
    ReadFiles(sorted, headers, [i \in 1..Len(headers) |-> {}], <<Source, DataNull>>)

ReadAndSelect(dest, rd, stray) ==
    Selected(dest, rd,
             SelectPivots(1, rd.pivotItems, rd.pivotHeaders, NoPivot, NoPivot, stray, {}))

Sorted(sorted, dest, stray) ==
    ReadAndSelect(dest, ReadSorted(sorted, getPivots(Head(sorted), TRUE)), stray)

\* The constructor from line 74 on, for a non-empty list and an opened file.
RPlotCtor(fs, dest, stray) == Sorted(qSort(fs), dest, stray)

(***************************************************************************)
(* Inputs: the files a caller may name, and the destinations it may give.   *)
(***************************************************************************)
RECURSIVE Join(_, _)
Join(words, sep) ==
    IF words = <<>> THEN Empty
    ELSE IF Len(words) = 1 THEN Str(Head(words))
    ELSE Str(Head(words)) \o Str(sep) \o Join(Tail(words), sep)

CsvFile(dir, base) == Join(dir, "_") \o Str("/") \o Join(base, "_") \o <<".", "csv">>

Dims3 == <<"Algorithm", "Split", "Gallery">>

InputFiles ==
    { CsvFile(Dims3, <<"a", "0", "0">>),
      CsvFile(Dims3, <<"a", "0", "1">>),
      CsvFile(Dims3, <<"b", "1", "0">>),
      CsvFile(Dims3, <<"b">>),
      CsvFile(<<"Algorithm">>, <<"a">>),
      CsvFile(<<"Algorithm">>, <<"b">>) }

\* The lists a caller may pass: up to MaxFiles files, none named twice.
FileLists ==
    UNION { { fs \in [1..n -> InputFiles] : \A i, j \in 1..n : fs[i] = fs[j] => i = j } :
            n \in 0..MaxFiles }

Variants == {"Plot", "PlotDetection", "PlotLandmarking", "PlotMetadata"}

Meta1(key, value) == Str(key) :> value

SmoothMetas ==
    {NoMeta} \cup { Meta1("smooth", Str(h)) : h \in {"Algorithm", "Split"} }

ConfidenceMetas == {NoMeta, Meta1("confidence", 0)}

OptionLists ==
    { <<Str("xLog")>>,
      <<Join(<<"xLog", "false">>, "="), Join(<<"a", "b", "c">>, "=")>>,
      <<Str("yLog"), Join(<<"a", "b", "c">>, "=")>> }

OutPdf == <<"out", ".", "pdf">>

\* The destinations of Plot, PlotDetection and PlotLandmarking.
Destinations(v) ==
    { File(OutPdf, s @@ c) : s \in SmoothMetas, c \in ConfidenceMetas }
    \cup { File(<<"out">>, Meta1("smooth", Str("File"))),
           File(<<"plots", "/", "out", ".", "png">>,
                Meta1("smooth", Str("Algorithm")) @@ Meta1("ncol", 2)) }
    \cup (IF v = "Plot"
          THEN { File(OutPdf, Meta1("metadata", Str("false")) @@ Meta1("csv", Str("true"))) }
          ELSE {})
    \cup (IF v \in {"Plot", "PlotDetection"}
          THEN { File(OutPdf, Meta1("smooth", Str("Algorithm")) @@ Meta1("rocOptions", o)) :
                    o \in OptionLists }
          ELSE {})

\* PlotMetadata's `columns`, and the destination of line 467.
ColumnLists == { Str("Age"), Join(<<"Age", "Gender">>, ";") }

MetadataDestination == File(Str("PlotMetadata"), NoMeta)

(***************************************************************************)
(* The state before a report function is entered.                           *)
(***************************************************************************)
NoRPlot ==
    [basename |-> Empty, suffix |-> Empty, pivotHeaders |-> <<>>, pivotItems |-> <<>>,
     confidence |-> Fraction(0, 1), ncol |-> 0, flip |-> FALSE,
     major |-> NoPivot, minor |-> NoPivot]

NoScaleArgs == [mode |-> "", title |-> Empty, vals |-> 0]

Idle ==
    /\ p = NoRPlot
    /\ doc = <<>>
    /\ fileOpen = FALSE
    /\ optMap = NoMeta
    /\ chart = 0
    /\ plotType = ""
    /\ rocRows = <<>>
    /\ runtimeCalls = <<>>
    /\ showCalls = <<>>
    /\ result = "none"
    /\ fatal = ""
    /\ ub = {}

Init ==
    /\ pc = "start"
    /\ variant \in Variants
    /\ files \in FileLists
    /\ destination \in (IF variant = "PlotMetadata" THEN {MetadataDestination}
                        ELSE Destinations(variant))
    /\ show = FALSE
    /\ columns \in (IF variant = "PlotMetadata" THEN ColumnLists ELSE {Empty})
    /\ Idle
    /\ scaleArgs = NoScaleArgs
    /\ scaleRet = NoScale

inputs == <<variant, files, destination, columns, scaleArgs, scaleRet>>

(***************************************************************************)
(* RPlot::RPlot as the first step of each report function.                  *)
(***************************************************************************)
\* What an out-of-range read of a QString element may yield when it does
\* not stop the process.
StrayStrings == {Empty, Str("Algorithm")}

Crash == Str("crash")

Body(v) ==
    CASE v = "Plot"            -> "Plot"
      [] v = "PlotDetection"   -> "PlotDetection.options"
      [] v = "PlotLandmarking" -> "PlotLandmarking"
      [] v = "PlotMetadata"    -> "PlotMetadata"

\* A diagnostic that is reported without stopping the process.
AbortSkipped(message) ==
    /\ fatal' = message
    /\ pc' = "finalize"

\* qFatal: the diagnostic is reported and the process ends.
Abort(message) ==
    /\ fatal' = message
    /\ pc' = "aborted"

Construct ==
    /\ pc = "start"
    /\ UNCHANGED <<inputs, show, optMap, chart, plotType, rocRows, runtimeCalls, showCalls, result>>
    /\ IF files = <<>>
       THEN /\ Abort("Empty file list.")
            /\ UNCHANGED <<p, doc, fileOpen, ub>>
       ELSE \E success \in BOOLEAN :
              IF ~success
              THEN /\ Abort("Failed to open for writing.")
                   /\ UNCHANGED <<p, doc, fileOpen, ub>>
              ELSE \E stray \in StrayStrings \cup {Crash} :
                     \E r \in {RPlotCtor(files, destination, stray)} :
                         /\ r.reads = {} => stray = Empty
                         /\ fileOpen' = TRUE
                         /\ ub' = ub \cup { <<"pivotHeaders", i>> : i \in r.reads }
                         /\ IF r.reads # {} /\ stray = Crash
                            THEN /\ pc' = "crashed"
                                 /\ doc' = r.loads
                                 /\ UNCHANGED <<p, fatal>>
                            ELSE /\ pc' = Body(variant)
                                 /\ p' = r.p
                                 /\ doc' = r.doc
                                 /\ UNCHANGED fatal

(***************************************************************************)
(* RPlot::qplot: one chart declaration.                                     *)
(***************************************************************************)
Maybe(cond, value) == IF cond THEN <<value>> ELSE <<>>

\* The overlay condition without the test on the relation.
ErrorBarsAnyData(p_, data) ==
    (p_.major.smooth \/ p_.minor.smooth) /\ p_.confidence.num # 0

\* The condition of line 150.
ErrorBars(p_, data) ==
    (p_.major.smooth \/ p_.minor.smooth) /\ p_.confidence.num # 0 /\ data # Str("CMC")

qplot(p_, geom, data, flipY, opts) ==
    [kind          |-> "qplot",
     geom          |-> geom,
     data          |-> data,
     flipY         |-> flipY,
     title         |-> Get(opts, "title", Empty),
     size          |-> Maybe(Contains(opts, "size"), Get(opts, "size", Empty)),
     colour        |-> Maybe(p_.major.size > 1, p_.major.header),
     linetype      |-> Maybe(p_.minor.size > 1, p_.minor.header),
     xlab          |-> opts.meta[Str("xTitle")],
     ylab          |-> opts.meta[Str("yTitle")],
     errorbar      |-> Maybe(ErrorBars(p_, data), [data |-> data, inverted |-> flipY]),
     colourScale   |-> Maybe(p_.major.size > 1,
                             getScale("colour", p_.major.header, p_.major.size)),
     linetypeScale |-> Maybe(p_.minor.size > 1, p_.minor.header),
     xLog          |-> GetBool(opts, "xLog", FALSE),
     yLog          |-> GetBool(opts, "yLog", FALSE),
     xLimits       |-> Contains(opts, "xLimits"),
     yLimits       |-> Contains(opts, "yLimits"),
     legend        |-> Maybe(Contains(opts, "legendPosition"),
                             Get(opts, "legendPosition", Empty)),
     ncol          |-> p_.ncol]

(***************************************************************************)
(* The option loops of Plot (lines 203-216) and PlotDetection (319-330).    *)
(***************************************************************************)
Options(xTitle, yTitle, xLog, yLog) ==
    File(Empty, Meta1("xTitle", Str(xTitle)) @@ Meta1("yTitle", Str(yTitle))
                @@ Meta1("xLog", Str(xLog)) @@ Meta1("yLog", Str(yLog)))

DefaultOptions(v) ==
    IF v = "Plot"
    THEN "rocOptions" :> Options("False Accept Rate", "True Accept Rate", "true", "false")
      @@ "detOptions" :> Options("False Accept Rate", "False Reject Rate", "true", "true")
      @@ "ietOptions" :> Options("False Positive Identification Rate (FPIR)",
                                 "False Negative Identification Rate (FNIR)", "true", "true")
      @@ "cmcOptions" :> [Options("Rank", "Retrieval Rate", "true", "false") EXCEPT
                            !.meta = @ @@ Meta1("size", Str("1"))
                                       @@ Meta1("xLabels", Str("c(1,5,10,50,100)"))
                                       @@ Meta1("xBreaks", Str("c(1,5,10,50,100)"))]
    ELSE "rocOptions" :> Options("False Accepts Per Image", "True Accept Rate", "true", "false")
      @@ "prOptions"  :> Options("False Accept Rate", "False Reject Rate", "true", "true")

\* optMap.keys(): a QMap yields its keys in ascending order.
OptionKeys(v) ==
    IF v = "Plot" THEN <<"cmcOptions", "detOptions", "ietOptions", "rocOptions">>
    ELSE <<"prOptions", "rocOptions">>

parse(option, separator) == Split(option, separator)

checkArgsSize(name, words, min, max) == Len(words) >= min /\ Len(words) <= max

\* The inner loop of lines 211-215 over the entries still to apply.  words[1]
\* of a one-word entry is an out-of-range read: it stops the process when
\* `stray` is Crash and yields `stray` otherwise.
RECURSIVE ApplyOptions(_, _, _, _, _)
ApplyOptions(key, options, map, stray, reads) ==
    IF options = <<>> THEN [status |-> "ok", optMap |-> map, reads |-> reads]
    ELSE LET words == parse(Head(options), "=")
         IN  IF ~checkArgsSize(words[1], words, 1, 2)
             THEN [status |-> "fatal", optMap |-> map, reads |-> reads]
             ELSE IF Len(words) < 2
             THEN IF stray = Crash
                  THEN [status |-> "crashed", optMap |-> map,
                        reads |-> reads \cup {<<"words", 1>>}]
                  ELSE ApplyOptions(key, Tail(options),
                                    [map EXCEPT ![key] = Set(@, words[1], stray)],
                                    stray, reads \cup {<<"words", 1>>})
             ELSE ApplyOptions(key, Tail(options),
                               [map EXCEPT ![key] = Set(@, words[1], words[2])],
                               stray, reads)

\* The outer loop of line 209 over the keys still to visit.
RECURSIVE ResolveKeys(_, _, _, _, _)
ResolveKeys(keys, dest, map, stray, reads) ==
    IF keys = <<>> THEN [status |-> "ok", optMap |-> map, reads |-> reads]
    ELSE LET r == ApplyOptions(Head(keys), Get(dest, Head(keys), <<>>), map, stray, reads)
         IN  IF r.status # "ok" THEN r
             ELSE ResolveKeys(Tail(keys), dest, r.optMap, stray, r.reads)

ResolveOptions ==
    /\ pc \in {"Plot.options", "PlotDetection.options"}
    /\ UNCHANGED <<inputs, show, p, doc, fileOpen, chart, plotType, rocRows, runtimeCalls,
                   showCalls, result>>
    /\ \E stray \in StrayStrings \cup {Crash} :
         \E r \in {ResolveKeys(OptionKeys(variant), destination, DefaultOptions(variant),
                              stray, {})} :
             /\ r.reads = {} => stray = Empty
             /\ ub' = ub \cup r.reads
             /\ optMap' = r.optMap
             /\ CASE r.status = "fatal"   -> Abort("Incorrect number of arguments.")
                  [] r.status = "crashed" -> pc' = "crashed" /\ UNCHANGED fatal
                  [] r.status = "ok" ->
                        /\ pc' = IF variant = "Plot" THEN "Plot.tables"
                                 ELSE "PlotDetection.split"
                        /\ UNCHANGED fatal

(***************************************************************************)
(* Plot: the recognition report.                                            *)
(***************************************************************************)
AnySmooth(p_) == p_.major.smooth \/ p_.minor.smooth

\* The header chosen at lines 189, 193, 433 and 444.
GroupVar(p_) ==
    IF p_.major.size > 1 THEN p_.major.header
    ELSE IF p_.minor.header = Empty THEN p_.major.header ELSE p_.minor.header

SummarySE(data, measurevar, groupvars, confidence) ==
    [kind |-> "summarySE", data |-> Str(data), measurevar |-> measurevar,
     groupvars |-> groupvars, confidence |-> confidence]

\* Pre-aggregation guarded like errBars of line 186.
PreAggregationIfErrBars(p_) ==
    IF AnySmooth(p_) /\ p_.confidence.num # 0
    THEN [i \in 1..6 |->
             SummarySE(<<"DET", "IET", "CMC", "TF", "FT", "CT">>[i], "Y",
                       <<GroupVar(p_), Str("X")>>, p_.confidence)]
         \o <<SummarySE("ERR", "X", <<Str("Error"), GroupVar(p_), Str("Y")>>,
                        p_.confidence)>>
    ELSE <<>>

\* Lines 192-200.
PreAggregation(p_) ==
    IF AnySmooth(p_)
    THEN [i \in 1..6 |->
             SummarySE(<<"DET", "IET", "CMC", "TF", "FT", "CT">>[i], "Y",
                       <<GroupVar(p_), Str("X")>>, p_.confidence)]
         \o <<SummarySE("ERR", "X", <<Str("Error"), GroupVar(p_), Str("Y")>>,
                        p_.confidence)>>
    ELSE <<>>

\* Lines 182-200.
PlotHeader(p_, dest) ==
    << [kind |-> "evalFormatting"],
       [kind |-> "basename <-", basename |-> p_.basename],
       [kind |-> "errBars <-", flag |-> AnySmooth(p_) /\ p_.confidence.num # 0],
       [kind |-> "csv <-", flag |-> GetBool(dest, "csv", FALSE)],
       [kind |-> "algs <-",
        columns |-> IF (p_.major.size > 1 /\ p_.minor.size > 1) /\ ~AnySmooth(p_)
                    THEN <<p_.major.header, p_.minor.header>>
                    ELSE <<GroupVar(p_)>>],
       [kind |-> "algs <- algs[!duplicated(algs)]"] >>
    \o PreAggregation(p_)

PlotTable(data) == [kind |-> "plotTable", data |-> Str(data)]

\* Lines 219-234.
PlotTables(dest) ==
    IF GetBool(dest, "metadata", TRUE)
    THEN <<[kind |-> "plotMetadata"]>>
         \o (IF ~GetBool(dest, "csv", FALSE) THEN <<[kind |-> "plot.new"]>> ELSE <<>>)
         \o [i \in 1..4 |-> PlotTable(<<"TF", "FT", "CT", "TS">>[i])]
    ELSE <<>>

\* Lines 241-278.
PlotCharts(p_) ==
    << [kind  |-> "histogram", data |-> Str("SD"),
        facet |-> IF p_.major.size > 1
                  THEN IF p_.minor.size > 1
                       THEN <<IF p_.flip THEN p_.minor.header ELSE p_.major.header,
                              IF p_.flip THEN p_.major.header ELSE p_.minor.header>>
                       ELSE <<p_.major.header>>
                  ELSE <<>>],
       [kind    |-> "bar", data |-> Str("BC"),
        x       |-> IF p_.major.smooth
                    THEN (IF p_.minor.header = Empty THEN Str("Algorithm")
                          ELSE p_.minor.header)
                    ELSE p_.major.header,
        boxplot |-> AnySmooth(p_),
        fill    |-> Maybe(p_.major.size > 1, p_.major.header),
        scale   |-> Maybe(p_.major.size > 1,
                          getScale("fill", p_.major.header, p_.major.size)),
        facet   |-> Maybe(p_.minor.size > 1, p_.minor.header)],
       [kind   |-> "errorRate", data |-> Str("ERR"),
        colour |-> Maybe((IF p_.flip THEN p_.major.size ELSE p_.minor.size) > 1,
                         IF p_.flip THEN p_.major.header ELSE p_.minor.header),
        scale  |-> Maybe((IF p_.flip THEN p_.major.size ELSE p_.minor.size) > 1,
                         getScale("colour",
                                  IF p_.flip THEN p_.major.header ELSE p_.minor.header,
                                  IF p_.flip THEN p_.major.size ELSE p_.minor.size)),
        facet  |-> Maybe((IF p_.flip THEN p_.minor.size ELSE p_.major.size) > 1,
                         IF p_.flip THEN p_.minor.header ELSE p_.major.header)],
       [kind |-> "gallery", data |-> Str("IM")],
       [kind |-> "gallery", data |-> Str("GM")] >>

PlotBegin ==
    /\ pc = "Plot"
    /\ doc' = doc \o PlotHeader(p, destination)
    /\ pc' = "Plot.options"
    /\ UNCHANGED <<inputs, show, p, fileOpen, optMap, chart, plotType, rocRows, runtimeCalls,
                   showCalls, result, fatal, ub>>

PlotMetadataTables ==
    /\ pc = "Plot.tables"
    /\ doc' = doc \o PlotTables(destination)
    /\ pc' = "Plot.qplot"
    /\ UNCHANGED <<inputs, show, p, fileOpen, optMap, chart, plotType, rocRows, runtimeCalls,
                   showCalls, result, fatal, ub>>

\* The k-th qplot call of Plot (lines 236-239) and of PlotDetection (347-355).
QplotCall(v, k, type) ==
    IF v = "Plot"
    THEN << [geom |-> "line", data |-> Str("DET"), flipY |-> TRUE,  key |-> "rocOptions", title |-> <<>>],
            [geom |-> "line", data |-> Str("DET"), flipY |-> FALSE, key |-> "detOptions", title |-> <<>>],
            [geom |-> "line", data |-> Str("IET"), flipY |-> FALSE, key |-> "ietOptions", title |-> <<>>],
            [geom |-> "line", data |-> Str("CMC"), flipY |-> FALSE, key |-> "cmcOptions", title |-> <<>>] >>[k]
    ELSE << [geom |-> type, data |-> <<"Discrete", "ROC">>,   flipY |-> FALSE, key |-> "rocOptions", title |-> <<Str("Discrete")>>],
            [geom |-> type, data |-> <<"Continuous", "ROC">>, flipY |-> FALSE, key |-> "rocOptions", title |-> <<Str("Continuous")>>],
            [geom |-> type, data |-> <<"Discrete", "PR">>,    flipY |-> FALSE, key |-> "prOptions",  title |-> <<Str("Discrete")>>],
            [geom |-> type, data |-> <<"Continuous", "PR">>,  flipY |-> FALSE, key |-> "prOptions",  title |-> <<Str("Continuous")>>] >>[k]

QplotCalls == 4

Qplot ==
    /\ pc \in {"Plot.qplot", "PlotDetection.qplot"}
    /\ chart < QplotCalls
    /\ LET call == QplotCall(variant, chart + 1, plotType)
           map  == IF call.title = <<>> THEN optMap
                   ELSE [optMap EXCEPT ![call.key] = Set(@, Str("title"), Head(call.title))]
       IN  /\ optMap' = map
           /\ doc' = Append(doc, qplot(p, call.geom, call.data, call.flipY, map[call.key]))
    /\ chart' = chart + 1
    /\ pc' = IF chart + 1 < QplotCalls THEN pc
             ELSE IF variant = "Plot" THEN "Plot.charts" ELSE "PlotDetection.charts"
    /\ UNCHANGED <<inputs, show, p, fileOpen, plotType, rocRows, runtimeCalls, showCalls,
                   result, fatal, ub>>

PlotEnd ==
    /\ pc = "Plot.charts"
    /\ doc' = doc \o PlotCharts(p)
    /\ pc' = "finalize"
    /\ UNCHANGED <<inputs, show, p, fileOpen, optMap, chart, plotType, rocRows, runtimeCalls,
                   showCalls, result, fatal, ub>>

(***************************************************************************)
(* PlotDetection: the detection report.                                     *)
(***************************************************************************)
SplitData(names) == [i \in 1..Len(names) |-> [kind |-> "split", data |-> Str(names[i])]]

\* Lines 332-341.
DetectionSplit ==
    SplitData(<<"DiscreteROC", "ContinuousROC", "DiscretePR", "ContinuousPR",
                "Overlap", "AverageOverlap">>)
    \o <<[kind |-> "rm(data)"]>>

\* The loop of lines 291-300 over the lines still to read.
RECURSIVE CountedSinglePoint(_, _)
CountedSinglePoint(lines, rocCnt) ==
    IF lines = <<>> THEN TRUE
    ELSE LET cnt == IF Head(lines) = "DiscreteROC" THEN rocCnt + 1 ELSE rocCnt
         IN  IF cnt > 1 THEN FALSE ELSE CountedSinglePoint(Tail(lines), cnt)

fileHasSinglePoint(lines) == CountedSinglePoint(lines, 0)

\* What QFile::readAll yields for each input file: its lines, each named by
\* the Plot column it holds.
FileSystem ==
    CsvFile(Dims3, <<"a", "0", "0">>)    :> <<"DiscreteROC", "DiscreteROC", "ContinuousROC">>
 @@ CsvFile(Dims3, <<"a", "0", "1">>)    :> <<"DiscreteROC", "DiscreteROC">>
 @@ CsvFile(Dims3, <<"b", "1", "0">>)    :> <<"DiscreteROC", "ContinuousROC", "DiscreteROC">>
 @@ CsvFile(Dims3, <<"b">>)              :> <<"DiscreteROC", "ContinuousROC">>
 @@ CsvFile(<<"Algorithm">>, <<"a">>)    :> <<"ContinuousROC">>
 @@ CsvFile(<<"Algorithm">>, <<"b">>)    :> <<"DiscreteROC", "DiscreteROC", "DiscreteROC">>

\* Lines 356-366.
DetectionCharts(p_) ==
    << [kind  |-> "histogram", data |-> Str("Overlap"),
        facet |-> IF p_.major.size > 1
                  THEN IF p_.minor.size > 1
                       THEN <<p_.major.header, p_.minor.header>>
                       ELSE <<p_.major.header>>
                  ELSE <<>>],
       [kind |-> "text", data |-> Str("AverageOverlap"),
        x |-> Maybe(p_.minor.size > 1, p_.minor.header),
        y |-> Maybe(p_.major.size > 1, p_.major.header)],
       [kind |-> "tile", data |-> Str("AverageOverlap"),
        x |-> Maybe(p_.minor.size > 1, p_.minor.header),
        y |-> Maybe(p_.major.size > 1, p_.major.header)] >>

DetectionBegin ==
    /\ pc = "PlotDetection.split"
    /\ doc' = doc \o DetectionSplit
    /\ plotType' = "line"
    /\ pc' = "PlotDetection.points"
    /\ UNCHANGED <<inputs, show, p, fileOpen, optMap, chart, rocRows, runtimeCalls, showCalls,
                   result, fatal, ub>>

\* One pass of the loop of filesHaveSinglePoint (lines 304-309), which reads
\* the next file of the caller's list, and lines 344-345 once it returns.
FilesHaveSinglePoint ==
    /\ pc = "PlotDetection.points"
    /\ UNCHANGED <<inputs, show, p, doc, fileOpen, optMap, chart, runtimeCalls, showCalls,
                   result, ub>>
    /\ \E success \in BOOLEAN :
         IF ~success
         THEN /\ Abort("Failed to open for reading.")
              /\ UNCHANGED <<plotType, rocRows>>
         ELSE LET lines == FileSystem[files[Len(rocRows) + 1]]
              IN
                /\ rocRows' = Append(rocRows, lines)
                /\ UNCHANGED fatal
                /\ IF fileHasSinglePoint(lines)
                   THEN plotType' = "point" /\ pc' = "PlotDetection.qplot"
                   ELSE /\ UNCHANGED plotType
                        /\ pc' = IF Len(rocRows) + 1 < Len(files) THEN pc
                                 ELSE "PlotDetection.qplot"

DetectionEnd ==
    /\ pc = "PlotDetection.charts"
    /\ doc' = doc \o DetectionCharts(p)
    /\ pc' = "finalize"
    /\ UNCHANGED <<inputs, show, p, fileOpen, optMap, chart, plotType, rocRows, runtimeCalls,
                   showCalls, result, fatal, ub>>

(***************************************************************************)
(* PlotLandmarking and PlotMetadata.                                        *)
(***************************************************************************)
\* Lines 376-458.
LandmarkingScript(p_) ==
    SplitData(<<"Box", "Sample", "EXT", "EXP", "NormLength">>)
    \o << [kind |-> "rm(data)"],
          [kind |-> "readData <- function"],
          [kind |-> "library"],
          [kind |-> "plotImage <- function"],
          [kind |-> "samples", column |-> GroupVar(p_)],
          [kind |-> "errorTable", groupvars |-> <<GroupVar(p_), Str("X")>>],
          [kind |-> "textplot"] >>
    \o [i \in 1..3 |->
           [kind     |-> <<"ecdf", "boxplot", "violin">>[i], data |-> Str("Box"),
            colour   |-> Maybe(p_.major.size > 1, p_.major.header),
            linetype |-> Maybe(p_.minor.size > 1, p_.minor.header)]]

PlotLandmarkingBody ==
    /\ pc = "PlotLandmarking"
    /\ doc' = doc \o LandmarkingScript(p)
    /\ pc' = "finalize"
    /\ UNCHANGED <<inputs, show, p, fileOpen, optMap, chart, plotType, rocRows, runtimeCalls,
                   showCalls, result, fatal, ub>>

\* Lines 468-469.
RECURSIVE MetadataScript(_, _)
MetadataScript(p_, cols) ==
    IF cols = <<>> THEN <<>>
    ELSE << [kind |-> "violin", data |-> Str("data"), x |-> p_.major.header,
             y |-> Head(cols)],
            [kind |-> "ggsave", name |-> Head(cols)] >>
         \o MetadataScript(p_, Tail(cols))

PlotMetadataBody ==
    /\ pc = "PlotMetadata"
    /\ doc' = doc \o MetadataScript(p, Split(columns, ";"))
    /\ pc' = "finalize"
    /\ UNCHANGED <<inputs, show, p, fileOpen, optMap, chart, plotType, rocRows, runtimeCalls,
                   showCalls, result, fatal, ub>>

(***************************************************************************)
(* RPlot::finalize.                                                         *)
(***************************************************************************)
\* The cleanup statement written before the device is closed.
ClosingUnlinkFirst(p_) ==
    (IF p_.suffix # Str("pdf") THEN <<Unlink(p_.basename, p_.suffix)>> ELSE <<>>) \o <<DevOff>>

Closing(p_) ==
    <<DevOff>> \o (IF p_.suffix # Str("pdf") THEN <<Unlink(p_.basename, p_.suffix)>> ELSE <<>>)

\* The artifact opened whenever the caller asked for it.
ShownOnRequest(success, requested) == requested

\* The condition of line 171.
Shown(success, requested) == success /\ requested

Finalize ==
    /\ pc = "finalize"
    /\ doc' = doc \o Closing(p)
    /\ fileOpen' = FALSE
    /\ \E success \in BOOLEAN, requested \in BOOLEAN :
         /\ show' = requested
         /\ runtimeCalls' = Append(runtimeCalls,
                                   [script |-> p.basename \o <<".", "R">>,
                                    closed |-> ~fileOpen',
                                    written |-> Len(doc'),
                                    success |-> success])
         /\ showCalls' = IF Shown(success, requested)
                         THEN Append(showCalls, p.basename \o Str(".") \o p.suffix)
                         ELSE showCalls
         /\ result' = IF success THEN "true" ELSE "false"
    /\ pc' = "done"
    /\ UNCHANGED <<inputs, p, optMap, chart, plotType, rocRows, fatal, ub>>

Next ==
    \/ Construct
    \/ PlotBegin
    \/ ResolveOptions
    \/ PlotMetadataTables
    \/ Qplot
    \/ PlotEnd
    \/ DetectionBegin
    \/ FilesHaveSinglePoint
    \/ DetectionEnd
    \/ PlotLandmarkingBody
    \/ PlotMetadataBody
    \/ Finalize

Spec == Init /\ [][Next]_vars

(***************************************************************************)
(* getScale on its own: every cardinality, not only the ones MaxFiles       *)
(* files can produce.                                                       *)
(***************************************************************************)
InitScale ==
    /\ pc = "getScale"
    /\ variant = "Plot"
    /\ files = <<>>
    /\ destination = File(OutPdf, NoMeta)
    /\ show = FALSE
    /\ columns = Empty
    /\ Idle
    /\ scaleArgs \in [mode : {"colour", "fill"},
                      title : {Str("Algorithm"), Str("Split"), Str("File")},
                      vals : (0 - MaxVals)..MaxVals]
    /\ scaleRet = NoScale

CallGetScale ==
    /\ pc = "getScale"
    /\ scaleRet' = getScale(scaleArgs.mode, scaleArgs.title, scaleArgs.vals)
    /\ pc' = "returned"
    /\ UNCHANGED <<variant, files, destination, columns, scaleArgs, show, p, doc, fileOpen, optMap,
                   chart, plotType, rocRows, runtimeCalls, showCalls, result, fatal, ub>>

NextScale == CallGetScale

SpecScale == InitScale /\ [][NextScale]_vars

(***************************************************************************)
(* Properties.                                                              *)
(***************************************************************************)
\* The constructor has completed: p holds a classified RPlot.
Classification == p # NoRPlot

SmoothName == Get(destination, "smooth", Empty)

ConfidenceGiven == Get(destination, "confidence", 95)

\* The header list the constructor starts from, and the labels the files
\* give to dimension d (counted from 1) under the naming convention.
CanonicalHeaders == getPivots(Head(qSort(files)), TRUE)

ConventionHolds ==
    \A k \in 1..Len(files) : Len(getPivots(files[k], FALSE)) = Len(CanonicalHeaders)

Labels(d) == { getPivots(files[k], FALSE)[d] : k \in 1..Len(files) }

\* Dimension d comes first among the dimensions outside `taken`: it has the
\* most labels, and the lowest index among those with as many.
Leads(d, taken) ==
    /\ d \in (1..Len(CanonicalHeaders)) \ taken
    /\ \A e \in (1..Len(CanonicalHeaders)) \ taken :
         \/ Cardinality(Labels(e)) < Cardinality(Labels(d))
         \/ Cardinality(Labels(e)) = Cardinality(Labels(d)) /\ e >= d

IsDimension(pivot, d) ==
    /\ pivot.index = d - 1
    /\ pivot.header = CanonicalHeaders[d]
    /\ pivot.size = Cardinality(Labels(d))

\* C1: once the constructor has completed, major.size >= minor.size.
C1_MajorNotSmaller == Classification => p.major.size >= p.minor.size

\* C1 witness: smoothing collapsed the first-chosen pivot below the other one,
\* and the swap of lines 126-127 made that other one major.
C1_Swapped ==
    /\ Classification
    /\ p.minor.smooth
    /\ p.minor.index < p.major.index
    /\ p.major.size > p.minor.size

\* C2: when every base name has as many tokens as the header list and no
\* smooth name is given, major is the dimension with the most distinct labels
\* and minor the one with the most among the others, the lowest index winning
\* among equals; with a single dimension there is no minor.
C2_LargestTwo ==
    (Classification /\ SmoothName = Empty /\ ConventionHolds) =>
        /\ Leads(p.major.index + 1, {})
        /\ IsDimension(p.major, p.major.index + 1)
        /\ IF Len(CanonicalHeaders) > 1
           THEN /\ p.minor.index # p.major.index
                /\ Leads(p.minor.index + 1, {p.major.index + 1})
                /\ IsDimension(p.minor, p.minor.index + 1)
           ELSE p.minor = NoPivot

\* C2 witness: three dimensions of which the last has the most labels and the
\* first two tie, so that the first is demoted from major to minor.
C2_Demoted ==
    /\ Classification /\ ConventionHolds /\ SmoothName = Empty
    /\ Len(CanonicalHeaders) = 3
    /\ p.major.index = 2
    /\ p.minor.index = 0
    /\ Cardinality(Labels(1)) = Cardinality(Labels(2))

\* The label set of a pivot's dimension, as the constructor collected it.
LabelCount(pivot) ==
    IF pivot.index < 0 THEN 0 ELSE Cardinality(p.pivotItems[pivot.index + 1])

SmoothRule(pivot) ==
    /\ pivot.smooth <=> (SmoothName # Empty /\ pivot.header = SmoothName
                         /\ LabelCount(pivot) > 1)
    /\ pivot.size = IF pivot.smooth THEN 1 ELSE LabelCount(pivot)

\* C3: major and minor are each smoothed iff the smooth name is non-empty,
\* equals the pivot's header and the pivot's label set has more than one
\* label; a smoothed pivot has size 1, any other keeps its label count.
C3_SmoothFlags == Classification => SmoothRule(p.major) /\ SmoothRule(p.minor)

\* C3 witness: the smooth name is the header of a pivot with one label, which
\* stays unsmoothed, while the other pivot is not named and keeps its size.
C3_NamedSingleLabel ==
    /\ Classification
    /\ p.minor.header = SmoothName
    /\ ~p.minor.smooth /\ p.minor.size = 1
    /\ ~p.major.smooth /\ p.major.size = 2

\* C4: the scale getScale returns depends on vals alone: above 12 the plain
\* discrete scale, 12 Set3, 10 and 11 Paired, 9 and below Set1.
C4_ScaleTable ==
    pc = "returned" =>
        /\ scaleRet.mode = scaleArgs.mode
        /\ scaleRet.title = scaleArgs.title
        /\ scaleArgs.vals > 12 => scaleRet.scale = "discrete" /\ scaleRet.palette = ""
        /\ scaleArgs.vals = 12 => scaleRet.scale = "brewer" /\ scaleRet.palette = "Set3"
        /\ scaleArgs.vals \in {10, 11} =>
              scaleRet.scale = "brewer" /\ scaleRet.palette = "Paired"
        /\ scaleArgs.vals <= 9 => scaleRet.scale = "brewer" /\ scaleRet.palette = "Set1"

\* C4 witness: getScale has returned Paired for 11 values.
C4_Returned == pc = "returned" /\ scaleArgs.vals = 11 /\ scaleRet.palette = "Paired"

\* C5 as stated: 9 selects Set1, 10 Paired, 12 Paired and 13 the plain scale.
C5_Boundaries12Paired ==
    pc = "returned" =>
        /\ scaleArgs.vals = 9  => scaleRet.palette = "Set1"
        /\ scaleArgs.vals = 10 => scaleRet.palette = "Paired"
        /\ scaleArgs.vals = 12 => scaleRet.palette = "Paired"
        /\ scaleArgs.vals = 13 => scaleRet.scale = "discrete"

\* C5 amended: 9 selects Set1, 10 Paired, 12 Set3 and 13 the plain scale.
C5_Boundaries ==
    pc = "returned" =>
        /\ scaleArgs.vals = 9  => scaleRet.palette = "Set1"
        /\ scaleArgs.vals = 10 => scaleRet.palette = "Paired"
        /\ scaleArgs.vals = 12 => scaleRet.palette = "Set3"
        /\ scaleArgs.vals = 13 => scaleRet.scale = "discrete"

\* C5 witness: getScale has returned Set3 for 12 values.
C5_TwelveIsSet3 == pc = "returned" /\ scaleArgs.vals = 12 /\ scaleRet.palette = "Set3"

\* The state the constructor leaves: the report function has not yet acted.
JustConstructed == Classification /\ pc = Body(variant)

SameTokenCount ==
    \A i, j \in 1..Len(files) :
        Len(getPivots(files[i], FALSE)) = Len(getPivots(files[j], FALSE))

Permuted(order) == [i \in 1..Len(files) |-> files[order[i]]]

\* C6: for a list whose base names all have the same number of tokens, the
\* constructor's result (major, minor, ncol, flip and the other fields) and
\* the statements it writes, load statements included, are those it yields
\* for every other order of the same list.
C6_OrderIndependent ==
    (JustConstructed /\ SameTokenCount) =>
        \A order \in Permutations(1..Len(files)) :
            /\ RPlotCtor(Permuted(order), destination, Empty).p = p
            /\ RPlotCtor(Permuted(order), destination, Empty).doc = doc

\* C6 witness: the constructor has run on two or more files that the caller
\* gave in an order other than the sorted one.
C6_GivenUnsorted ==
    /\ JustConstructed /\ SameTokenCount
    /\ files # qSort(files)
    /\ p.minor.size > 1

IsQplot(i) == doc[i].kind = "qplot"

Overlay(i) == doc[i].errorbar # <<>>

\* C7: in every report a chart declaration written by qplot carries the
\* error-bar overlay iff major or minor is smoothed, the confidence of the
\* report is not 0 and the chart's relation is not CMC.
C7_ErrorBarOverlay ==
    \A i \in 1..Len(doc) :
        IsQplot(i) =>
            (Overlay(i) <=> /\ p.major.smooth \/ p.minor.smooth
                            /\ p.confidence # Fraction(0, 100)
                            /\ doc[i].data # Str("CMC"))

\* C7 witness: a finished recognition report whose DET charts carry the
\* overlay and whose CMC chart does not.
C7_OverlayButOnCMC ==
    /\ pc = "done"
    /\ ConfidenceGiven = 95
    /\ \E i, j \in 1..Len(doc) :
         /\ IsQplot(i) /\ Overlay(i)
         /\ IsQplot(j) /\ ~Overlay(j) /\ doc[j].data = Str("CMC")

HeaderWritten == \E i \in 1..Len(doc) : doc[i].kind = "evalFormatting"

PreAggregated == \E i \in 1..Len(doc) : doc[i].kind = "summarySE"

\* C8: in the recognition report the pre-aggregation statements are written
\* iff major or minor is smoothed, whatever the confidence; with confidence 0
\* and a smoothed pivot they are written and no chart carries the overlay.
C8_PreAggregation ==
    (variant = "Plot" /\ HeaderWritten) =>
        /\ PreAggregated <=> (p.major.smooth \/ p.minor.smooth)
        /\ ((p.major.smooth \/ p.minor.smooth) /\ ConfidenceGiven = 0) =>
              /\ PreAggregated
              /\ \A i \in 1..Len(doc) : IsQplot(i) => ~Overlay(i)

\* C8 witness: a finished recognition report with confidence 0 and a smoothed
\* pivot, pre-aggregated and with its four charts free of overlays.
C8_ZeroConfidenceSmoothed ==
    /\ variant = "Plot" /\ pc = "done"
    /\ p.major.smooth \/ p.minor.smooth
    /\ ConfidenceGiven = 0
    /\ PreAggregated
    /\ Cardinality({ i \in 1..Len(doc) : IsQplot(i) /\ ~Overlay(i) }) = QplotCalls

\* The override entries of the destination, per option key.
Overrides(key) == Get(destination, key, <<>>)

Arities ==
    { Len(parse(Overrides(key)[k], "=")) :
        key \in {"rocOptions"}, k \in 1..Len(Overrides("rocOptions")) }

\* The option loop has run.
Resolved == optMap # NoMeta

\* C9 as stated: override entries of one or two tokens, a bare name among
\* them, are accepted: no out-of-range access, no fatal arity error, no
\* crash, and each bare name is set in its option record.
C9_BareNameAccepted ==
    (Resolved /\ 1 \in Arities /\ Arities \subseteq {1, 2}) =>
        /\ ub = {}
        /\ pc # "crashed"
        /\ fatal # "Incorrect number of arguments."
        /\ \A k \in 1..Len(Overrides("rocOptions")) :
              Contains(optMap["rocOptions"], Head(Head(parse(Overrides("rocOptions")[k], "="))))

\* C10: once a fatal diagnostic is raised the process is gone: the runtime
\* has not been and is not invoked, nothing is shown, nothing is returned.
C10_FatalStops ==
    fatal # "" =>
        /\ pc = "aborted"
        /\ runtimeCalls = <<>>
        /\ showCalls = <<>>
        /\ result = "none"

\* C10 witness: an override entry of three tokens aborted a report whose
\* script was already open and partly written.
C10_ArityFatal ==
    /\ fatal = "Incorrect number of arguments."
    /\ 3 \in Arities
    /\ fileOpen /\ doc # <<>>
    /\ runtimeCalls = <<>>

\* The constructor has written its load statements for a list in which some
\* base name has a token count other than the header count.
ConventionBroken == doc # <<>> /\ ~ConventionHolds

BaseNames == { CompleteBaseName(files[k]) : k \in 1..Len(files) }

\* C11 as stated: a mismatch at any position of the sorted list leaves the
\* constructor complete in single-dimension mode: the header list is
\* <<"File">>, major is the File dimension labelled by the base names, and
\* minor has no header and size 0.
C11_SingleDimensionMode ==
    ConventionBroken =>
        /\ Classification
        /\ p.pivotHeaders = <<Str("File")>>
        /\ p.major.header = Str("File")
        /\ p.pivotItems[p.major.index + 1] = BaseNames
        /\ p.minor.header = Empty
        /\ p.minor.size = 0

\* The first file of the sorted list has as many tokens as there are headers
\* and the second has not.
MismatchOnSecond ==
    /\ Len(files) >= 2
    /\ Len(getPivots(qSort(files)[1], FALSE)) = Len(CanonicalHeaders)
    /\ Len(getPivots(qSort(files)[2], FALSE)) # Len(CanonicalHeaders)

Unencoded(i) == doc[i].colour = <<>> /\ doc[i].linetype = <<>>

\* C12 as stated: with the mismatch on the second sorted file the constructor
\* falls back to the single File dimension, and no chart declaration written
\* afterwards has a colour or a line-style encoding.
C12_NoEncodingAfterFallback ==
    (doc # <<>> /\ MismatchOnSecond) =>
        /\ Classification
        /\ p.pivotHeaders = <<Str("File")>>
        /\ p.major.header = Str("File")
        /\ p.minor = NoPivot
        /\ \A i \in 1..Len(doc) : IsQplot(i) => Unencoded(i)

\* The positions of the read.csv statements, and for one of them the number
\* of column assignments that follow it in its load block.
LoadBlocks == { i \in 1..Len(doc) : doc[i].kind = "read.csv" }

BlockSize(i) ==
    CHOOSE n \in 0..(Len(doc) - i) :
        /\ \A j \in 1..n : doc[i + j].kind = "tmp$"
        /\ i + n < Len(doc) => doc[i + n + 1].kind # "tmp$"

BlockColumns(i) == [j \in 1..BlockSize(i) |-> doc[i + j].column]

BlockValues(i) == [j \in 1..BlockSize(i) |-> doc[i + j].value]

\* C13 as stated: every load block sets exactly one column per header of the
\* final header list: the file's labels under the headers when the naming
\* convention held for all files, the single File column in every block when
\* it was abandoned.
C13_ColumnPerHeader ==
    Classification =>
        \A i \in LoadBlocks :
            /\ BlockColumns(i) = p.pivotHeaders
            /\ ConventionHolds => BlockValues(i) = getPivots(doc[i].file, FALSE)
            /\ ~ConventionHolds => BlockColumns(i) = <<Str("File")>>

\* C14: the runtime is invoked at most once, and when it is, the device-close
\* statement is written and the document closed with nothing written after;
\* the artifact is shown iff the runtime succeeded and display was requested;
\* the value returned is the runtime's; a finished report has made its call.
C14_FinalizeOnce ==
    /\ Len(runtimeCalls) <= 1
    /\ Len(showCalls) <= 1
    /\ pc = "done" <=> runtimeCalls # <<>>
    /\ runtimeCalls = <<>> => showCalls = <<>> /\ result = "none"
    /\ runtimeCalls # <<>> =>
         /\ runtimeCalls[1].closed /\ ~fileOpen
         /\ runtimeCalls[1].written = Len(doc)
         /\ \E i \in 1..Len(doc) : doc[i] = DevOff
         /\ showCalls # <<>> <=> (runtimeCalls[1].success /\ show)
         /\ result = IF runtimeCalls[1].success THEN "true" ELSE "false"

\* C14 witness: display was requested and the runtime failed: one call,
\* nothing shown, false returned.
C14_FailedNotShown ==
    /\ pc = "done"
    /\ show /\ ~runtimeCalls[1].success
    /\ showCalls = <<>>
    /\ result = "false"

\* The kinds of statement the constructor writes before it opens the device.
LoadKinds == {"source", "data <- NULL", "read.csv", "tmp$", "rbind"}

IsReadCsv(stmt) == stmt.kind = "read.csv"

LoadedFiles ==
    LET loads == SelectSeq(doc, IsReadCsv)
    IN  [k \in 1..Len(loads) |-> loads[k].file]

Devices == { i \in 1..Len(doc) : doc[i].kind = "device" }

\* The statements before position d are the import and the load blocks, and
\* those after it are neither of these nor a second device statement.
SplitAt(d) ==
    /\ \A i \in 1..(d - 1) : doc[i].kind \in LoadKinds
    /\ \A i \in (d + 1)..Len(doc) : doc[i].kind \notin LoadKinds \cup {"device"}

\* The document ends with the device-close statement, followed by the
\* cleanup statement iff the suffix is not pdf, and has neither elsewhere.
Sealed ==
    /\ Len(doc) > 2
    /\ IF p.suffix = Str("pdf")
       THEN doc[Len(doc)] = DevOff
       ELSE doc[Len(doc) - 1] = DevOff /\ doc[Len(doc)] = Unlink(p.basename, p.suffix)
    /\ \A i \in 1..(Len(doc) - 2) : doc[i].kind \notin {"dev.off", "unlink"}
    /\ doc[Len(doc) - 1].kind # "unlink"

Unsealed == \A i \in 1..Len(doc) : doc[i].kind \notin {"dev.off", "unlink"}

InOrder ==
    doc # <<>> =>
        /\ doc[1] = Source
        /\ \A i \in 2..Len(doc) : doc[i].kind # "source"
        /\ LoadedFiles = qSort(files)
        /\ Cardinality(Devices) <= 1
        /\ Classification <=> Devices # {}
        /\ \A d \in Devices \cup (IF Devices = {} THEN {Len(doc) + 1} ELSE {}) : SplitAt(d)
        /\ IF pc = "done" THEN Sealed ELSE Unsealed

IsPrefix(s, t) == Len(s) <= Len(t) /\ SubSeq(t, 1, Len(s)) = s

Appended ==
    /\ IsPrefix(doc, doc')
    /\ pc = "done" => doc' = doc

\* C15: in every report the script is append-only and ordered: the import
\* first, one load block per file in sorted order, the device statement, the
\* chart and table statements, and last the device-close statement, followed
\* only by the cleanup statement when the suffix is not pdf; nothing is
\* appended once finalize has sealed the document.
C15_AppendOnlyOrdered == []InOrder /\ [][Appended]_vars

\* C15 witness: a sealed png report of several files given out of order, with
\* charts between the device statement and the device-close statement.
C15_SealedPng ==
    /\ pc = "done"
    /\ p.suffix = Str("png")
    /\ files # qSort(files)
    /\ doc[Len(doc)].kind = "unlink"
    /\ \E d \in Devices : d + 2 < Len(doc)

\* The number of DiscreteROC rows of an input file.
RocPoints(file) ==
    Cardinality({ n \in 1..Len(FileSystem[file]) : FileSystem[file][n] = "DiscreteROC" })

SinglePointFiles == { k \in 1..Len(files) : RocPoints(files[k]) = 1 }

\* C16 as stated: the ROC and PR declarations of the detection report have
\* point geometry iff some input file has exactly one DiscreteROC row, and
\* line geometry otherwise.
C16_PointGeometry ==
    variant = "PlotDetection" =>
        \A i \in 1..Len(doc) :
            IsQplot(i) =>
                /\ doc[i].geom = "point" <=> SinglePointFiles # {}
                /\ doc[i].geom = "line" <=> SinglePointFiles = {}

IsSummary(i) == doc[i].kind = "summarySE"

\* The pivot header a pre-aggregation statement groups by.
GroupHeader(i) ==
    IF doc[i].data = Str("ERR") THEN doc[i].groupvars[2] ELSE doc[i].groupvars[1]

\* The header is that of major or minor, and that pivot is a dimension of
\* the input that is not marked smoothed.
Active(header) ==
    \/ p.major.index >= 0 /\ p.major.header = header /\ ~p.major.smooth
    \/ p.minor.index >= 0 /\ p.minor.header = header /\ ~p.minor.smooth

\* C17 as stated: every pre-aggregation statement groups by the header of a
\* dimension that is not marked smoothed, whatever the classification, the
\* input with a single, smoothed dimension included.
C17_GroupByActive ==
    \A i \in 1..Len(doc) : IsSummary(i) => Active(GroupHeader(i))

\* A pre-aggregation statement for the relation of statement i precedes it.
SummarisedBefore(i) ==
    \E j \in 1..(i - 1) : IsSummary(j) /\ doc[j].data = doc[i].data

\* C18 as stated: in every report a chart declaration of qplot that carries
\* the error-bar overlay comes after a pre-aggregation statement for the
\* relation it plots.
C18_OverlayAfterSummary ==
    \A i \in 1..Len(doc) : (IsQplot(i) /\ Overlay(i)) => SummarisedBefore(i)

====
